---- MODULE Spec2Model ----
(***************************************************************************)
(* Model of window_refresher.c (src/main.c): a single-threaded program     *)
(* that periodically steals the foreground for a selected window, injects  *)
(* Ctrl+F5 with SendInput and restores the previous foreground window.     *)
(*                                                                         *)
(* The program is one thread of control; `pc` is its position.  Every OS   *)
(* call is one atomic step.  The windowing system and the user are the     *)
(* environment: between any two program steps windows may be closed,       *)
(* minimized or restored and the foreground owner may change.              *)
(***************************************************************************)
EXTENDS Integers, Sequences, FiniteSets, TLC

(***************************************************************************)
(* Bounds of the model.                                                    *)
(***************************************************************************)
\* keystroke_count is an unbounded int in the source; the model stops
\* starting new deliveries once this many were started.
MaxCount == 1
\* Width in bits of the random word (32 in the source).
RandBits == 3
\* Delay bounds explored for GetRandomDelaySeconds, in whole seconds.
MaxDelay == 7
\* Longest configuration file explored for LoadConfiguration, in lines.
MaxLines == 3

(***************************************************************************)
(* Program constants.                                                      *)
(***************************************************************************)
DEFAULT_MIN_DELAY_S == 2
DEFAULT_MAX_DELAY_S == 7
ALT_KEY_CHECK_DELAY_MS == 500
POST_SENDINPUT_DELAY_MS == 100
FLASH_PAUSE_MS == 1000
FOCUS_SWITCH_ATTEMPTS == 3
\* Number of INPUT events in the Ctrl+F5 combo.
ComboLen == 4
\* Exclusive upper limit of an accepted delay value.
DelayLimit == 3600
\* Largest value of the random word, and of rand().
UINT_MAX == 2^RandBits - 1
RAND_MAX == 2^(RandBits - 1) - 1

(***************************************************************************)
(* Windows, threads and keys of the environment.                           *)
(***************************************************************************)
\* The window handle the user clicks on is T; A is another window of the
\* same application thread; B is a window of another thread that is never
\* closed or minimized (the shell's).
Windows == {"T", "A", "B"}
Closable == {"T", "A"}
NULL == "NULL"
Target == "T"
\* GetCurrentThreadId(): the program owns no window, so no window's thread
\* has this id.
CurrentThreadId == 1
WindowThread == [w \in Windows |-> IF w = "B" THEN 3 ELSE 2]
\* Physical modifier keys the user may hold.
PhysKeys == {"LALT", "RALT", "CTRL"}

VARIABLES
    \* ---- environment (OS state) ----
    alive,          \* set of windows whose handle is valid (IsWindow)
    iconic,         \* set of minimized windows (IsIconic)
    fg,             \* foreground owner (GetForegroundWindow), or NULL
    keysDown,       \* physical keys held by the user
    joined,         \* thread ids whose input is attached to the current thread
    \* ---- globals of the program ----
    pc,
    g_hTargetWindow,
    g_min_delay_seconds,
    g_max_delay_seconds,
    configFile,     \* options.config as fopen will find it; closed once read
    loadObs,        \* history: the file LoadConfiguration read and the number of
                    \* warnings it logged, observed until main enters its loop
    \* ---- locals of main ----
    keystroke_count,
    wait_duration_s,
    \* ---- locals of SendCtrlF5Keystroke ----
    hOriginalForeground,
    targetWasAlreadyForeground,
    focusSetForInput,
    \* ---- locals of ActivateWindowAndEnsureFocus ----
    dwTargetThreadId,
    dwOriginalForegroundThreadId,
    attachedToTarget,
    attachedToOriginalFG,
    attempt_i,
    focusSet,
    \* ---- locals of RestoreOriginalFocus ----
    currentFgAfterInput,
    dwOriginalFGThreadId,
    needsAttach,
    \* ---- history variables (observations, not program state) ----
    calls,          \* state-changing OS calls issued so far in the current phase
                    \* (acquisition and injection, or restore) of the session
    acqOutcome,     \* outcome of the acquisition phase of the current session
    lastFgQuery,    \* whether the most recent GetForegroundWindow() returned the target
    targetIconicObs,\* what the session last learned about IsIconic(target)
    modAtCheck,     \* keys held at the latest IsAltKeyHeld() since the last session
    closedAtPc,     \* pc at which the target was closed, "" while it lives
    liveChecked,    \* handles held by the program that it has seen alive
                    \* (IsWindow, or returned by a window query) since it last slept
    randSource,     \* random source consulted by the last sample
    lastWaitMs      \* length of the dispatcher's latest fixed pause, 0 after
                    \* the sampled wait

envVars == <<alive, iconic, fg, keysDown, joined>>
cfgVars == <<g_min_delay_seconds, g_max_delay_seconds, configFile, loadObs>>
mainVars == <<g_hTargetWindow, keystroke_count>>
sampleVars == <<wait_duration_s, randSource, lastWaitMs>>
sessVars == <<hOriginalForeground, targetWasAlreadyForeground, focusSetForInput>>
actVars == <<dwTargetThreadId, dwOriginalForegroundThreadId, attachedToTarget,
             attachedToOriginalFG, attempt_i, focusSet>>
resVars == <<currentFgAfterInput, dwOriginalFGThreadId, needsAttach>>
obsVars == <<acqOutcome, lastFgQuery, targetIconicObs, modAtCheck>>
vars == <<envVars, pc, cfgVars, mainVars, sampleVars, sessVars, actVars,
          resVars, calls, obsVars, closedAtPc, liveChecked>>

(***************************************************************************)
(* OS primitives as the program sees them.                                 *)
(***************************************************************************)
IsWindow(h) == h \in alive
IsIconic(h) == h \in iconic
GetWindowThreadProcessId(h) == IF h \in alive THEN WindowThread[h] ELSE 0

\* GetAsyncKeyState(vk) & 0x8000: VK_MENU is down when either Alt key is.
GetAsyncKeyState(vk, keys) ==
    CASE vk = "VK_MENU" -> ("LALT" \in keys) \/ ("RALT" \in keys)
      [] vk = "VK_LMENU" -> "LALT" \in keys
      [] vk = "VK_RMENU" -> "RALT" \in keys
      [] vk = "VK_CONTROL" -> "CTRL" \in keys
      [] OTHER -> FALSE

\* Variant that polls the left Alt key only.
IsAltKeyHeld_LeftOnly(keys) == GetAsyncKeyState("VK_LMENU", keys)
IsAltKeyHeld(keys) ==
    \/ GetAsyncKeyState("VK_MENU", keys)
    \/ GetAsyncKeyState("VK_LMENU", keys)
    \/ GetAsyncKeyState("VK_RMENU", keys)

\* Records of the state-changing OS calls, in the order they are issued.
CallAttach(tid, fAttach, ok) ==
    [op |-> "AttachThreadInput", hwnd |-> NULL, tid |-> tid, fAttach |-> fAttach,
     ok |-> ok]
CallSetForeground(h) ==
    [op |-> "SetForegroundWindow", hwnd |-> h, tid |-> 0, fAttach |-> FALSE,
     ok |-> TRUE]
CallShowWindow(h) ==
    [op |-> "ShowWindow", hwnd |-> h, tid |-> 0, fAttach |-> FALSE,
     ok |-> TRUE]
\* The INPUT array of lines 625-629: each event is a key and whether it is
\* a release (KEYEVENTF_KEYUP).
KeyInput(wVk, keyUp) == [wVk |-> wVk, keyUp |-> keyUp]
inputs ==
    <<KeyInput("VK_CONTROL", FALSE), KeyInput("VK_F5", FALSE),
      KeyInput("VK_F5", TRUE), KeyInput("VK_CONTROL", TRUE)>>
CallSendInput(uSent) ==
    [op |-> "SendInput", hwnd |-> NULL, tid |-> 0, fAttach |-> FALSE,
     inputs |-> SubSeq(inputs, 1, ComboLen), ok |-> (uSent = ComboLen)]

\* What a GetForegroundWindow() result tells about the target.
FgObservation(h) == IF h = Target THEN "TARGET" ELSE "OTHER"

\* The foreground owners SetForegroundWindow(h) or ShowWindow(h, SW_RESTORE)
\* may leave behind: the OS grants the request or refuses it.
FgAfterRequest(h) == IF h \in alive THEN {fg, h} ELSE {fg}

(***************************************************************************)
(* GetRandomDelaySeconds: the result is the exact rational num/den.        *)
(***************************************************************************)
Delay(num, den) == [num |-> num, den |-> den]
NoDelay == Delay(0, 1)

\* Variant whose early return tests min_s > max_s.
GetRandomDelaySeconds_StrictGuard(min_s, max_s, cryptoSuccess, random_value) ==
    IF min_s > max_s
      THEN [value |-> Delay(min_s, 1), source |-> "none"]
      ELSE [value |-> Delay(min_s * UINT_MAX + random_value * (max_s - min_s), UINT_MAX),
            source |-> IF cryptoSuccess THEN "crypto" ELSE "rand"]
GetRandomDelaySeconds(min_s, max_s, cryptoSuccess, random_value) ==
    IF min_s >= max_s
      THEN [value |-> Delay(min_s, 1), source |-> "none"]
      ELSE [value |-> Delay(min_s * UINT_MAX + random_value * (max_s - min_s), UINT_MAX),
            source |-> IF cryptoSuccess THEN "crypto" ELSE "rand"]

\* The words the random source can deliver: 0..UINT_MAX from CryptGenRandom,
\* 0..RAND_MAX from the rand() fallback.
RandomWords(cryptoSuccess) == IF cryptoSuccess THEN 0..UINT_MAX ELSE 0..RAND_MAX

(***************************************************************************)
(* LoadConfiguration: the file is absent or a sequence of lines; a line is *)
(* a comment, a key = value pair (value as atof parses it) or unparsable.  *)
(***************************************************************************)
ConfigLine(kind, key, val) == [kind |-> kind, key |-> key, val |-> val]
ConfigFile(present, lines) == [present |-> present, lines |-> lines]

\* Variant: the limit itself is accepted.
ValidDelay_Inclusive(parsed_val) == parsed_val > 0 /\ parsed_val <= DelayLimit

ValidDelay(parsed_val) == parsed_val > 0 /\ parsed_val < DelayLimit

\* Variant: a rejected value puts the key back to its default.
ApplyConfigLine_ResetsOnInvalid(st, line) ==
    IF line.kind # "kv" THEN
        IF line.kind = "comment" THEN st
        ELSE [st EXCEPT !.warnings = @ + 1]
    ELSE IF line.key = "min_delay" THEN
        IF ValidDelay(line.val) THEN [st EXCEPT !.min = line.val]
        ELSE [st EXCEPT !.min = DEFAULT_MIN_DELAY_S, !.warnings = @ + 1]
    ELSE IF line.key = "max_delay" THEN
        IF ValidDelay(line.val) THEN [st EXCEPT !.max = line.val]
        ELSE [st EXCEPT !.max = DEFAULT_MAX_DELAY_S, !.warnings = @ + 1]
    ELSE [st EXCEPT !.warnings = @ + 1]

ApplyConfigLine(st, line) ==
    IF line.kind # "kv" THEN
        IF line.kind = "comment" THEN st
        ELSE [st EXCEPT !.warnings = @ + 1]
    ELSE IF line.key = "min_delay" THEN
        IF ValidDelay(line.val) THEN [st EXCEPT !.min = line.val]
        ELSE [st EXCEPT !.warnings = @ + 1]
    ELSE IF line.key = "max_delay" THEN
        IF ValidDelay(line.val) THEN [st EXCEPT !.max = line.val]
        ELSE [st EXCEPT !.warnings = @ + 1]
    ELSE [st EXCEPT !.warnings = @ + 1]

RECURSIVE ReadConfigLines(_, _)
ReadConfigLines(st, lines) ==
    IF lines = <<>> THEN st
    ELSE ReadConfigLines(ApplyConfigLine(st, Head(lines)), Tail(lines))

\* Variant: the inversion is logged but the values are left as read.
SwapIfInverted_WarnsOnly(st) ==
    IF st.min > st.max
      THEN [st EXCEPT !.warnings = @ + 1]
      ELSE st

SwapIfInverted(st) ==
    IF st.min > st.max
      THEN [st EXCEPT !.min = st.max, !.max = st.min, !.warnings = @ + 1]
      ELSE st

LoadConfiguration(file) ==
    LET defaults == [min |-> DEFAULT_MIN_DELAY_S, max |-> DEFAULT_MAX_DELAY_S,
                     warnings |-> 0]
    IN IF ~file.present THEN defaults
       ELSE SwapIfInverted(ReadConfigLines(defaults, file.lines))

\* The stream after fclose, and the observation before any file was read.
ClosedFile == ConfigFile(FALSE, <<>>)
NoLoad == [file |-> ClosedFile, warnings |-> 0]

\* Files explored for LoadConfiguration on its own: no file, or up to
\* MaxLines lines, each a comment, an unparsable line or key = value with
\* the key one of the two delays or unknown, and the value as atof returns
\* it: 0 (also what atof gives for text), in range, the limit, beyond it.
ConfigKeys == {"min_delay", "max_delay", "other"}
ConfigValues == {0, 5, 10, DelayLimit - 1, DelayLimit, 9999}
ConfigLines ==
    {ConfigLine("comment", "", 0), ConfigLine("malformed", "", 0)}
        \cup {ConfigLine("kv", k, v) : k \in ConfigKeys, v \in ConfigValues}
RECURSIVE LinesUpTo(_)
LinesUpTo(n) ==
    IF n = 0 THEN {<<>>}
    ELSE LET shorter == LinesUpTo(n - 1)
         IN shorter \cup {Append(ls, l) : ls \in shorter, l \in ConfigLines}
ConfigFiles ==
    {ConfigFile(FALSE, <<>>)} \cup {ConfigFile(TRUE, ls) : ls \in LinesUpTo(MaxLines)}

\* Configuration files the dispatcher model starts from: no file, a file
\* with the two defaults inverted, and a file with a rejected value.
MainConfigFiles ==
    {ConfigFile(FALSE, <<>>),
     ConfigFile(TRUE, <<ConfigLine("comment", "", 0),
                        ConfigLine("kv", "min_delay", DEFAULT_MAX_DELAY_S),
                        ConfigLine("kv", "max_delay", DEFAULT_MIN_DELAY_S)>>),
     ConfigFile(TRUE, <<ConfigLine("kv", "min_delay", DelayLimit),
                        ConfigLine("malformed", "", 0)>>)}

(***************************************************************************)
(* Initial state: the process has started, nothing has run yet.  The user  *)
(* is about to click on T, so all windows exist.                           *)
(***************************************************************************)
SessionLocalsInit ==
    /\ hOriginalForeground = NULL
    /\ targetWasAlreadyForeground = FALSE
    /\ focusSetForInput = FALSE
    /\ dwTargetThreadId = 0
    /\ dwOriginalForegroundThreadId = 0
    /\ attachedToTarget = FALSE
    /\ attachedToOriginalFG = FALSE
    /\ attempt_i = 0
    /\ focusSet = FALSE
    /\ currentFgAfterInput = NULL
    /\ dwOriginalFGThreadId = 0
    /\ needsAttach = FALSE
    /\ acqOutcome = "NONE"
    /\ lastFgQuery = "NONE"
    /\ targetIconicObs = "NONE"

InitCommon ==
    /\ alive = Windows
    /\ iconic = {}
    /\ fg \in Windows
    /\ keysDown = {}
    /\ joined = {}
    /\ g_hTargetWindow = NULL
    /\ keystroke_count = 0
    /\ wait_duration_s = NoDelay
    /\ randSource = "none"
    /\ lastWaitMs = 0
    /\ SessionLocalsInit
    /\ calls = <<>>
    /\ modAtCheck = {}
    /\ closedAtPc = ""
    /\ loadObs = NoLoad
    /\ liveChecked = {}

Init ==
    /\ InitCommon
    /\ pc = "main_init_logging"
    /\ configFile \in MainConfigFiles
    /\ g_min_delay_seconds = DEFAULT_MIN_DELAY_S
    /\ g_max_delay_seconds = DEFAULT_MAX_DELAY_S

Running == pc \notin {"done", "exit_failure"}

\* All locals of a finished session are dead; they are put back to their
\* initial values when SendCtrlF5Keystroke returns.
ResetSessionLocals ==
    /\ hOriginalForeground' = NULL
    /\ targetWasAlreadyForeground' = FALSE
    /\ focusSetForInput' = FALSE
    /\ dwTargetThreadId' = 0
    /\ dwOriginalForegroundThreadId' = 0
    /\ attachedToTarget' = FALSE
    /\ attachedToOriginalFG' = FALSE
    /\ attempt_i' = 0
    /\ focusSet' = FALSE
    /\ currentFgAfterInput' = NULL
    /\ dwOriginalFGThreadId' = 0
    /\ needsAttach' = FALSE
    /\ acqOutcome' = "NONE"
    /\ lastFgQuery' = "NONE"
    /\ targetIconicObs' = "NONE"

(***************************************************************************)
(* Environment: the user and the windowing system.                         *)
(***************************************************************************)
progVars == <<pc, cfgVars, mainVars, sampleVars, sessVars, actVars, resVars,
              calls, obsVars, liveChecked>>

\* The foreground moves to another live window, or to none.
EnvFocusChange ==
    /\ Running
    /\ \E w \in (alive \cup {NULL}) \ {fg} : fg' = w
    /\ UNCHANGED <<alive, iconic, keysDown, joined, progVars, closedAtPc>>

EnvMinimize ==
    /\ Running
    /\ \E w \in (alive \cap Closable) \ iconic : iconic' = iconic \cup {w}
    /\ UNCHANGED <<alive, fg, keysDown, joined, progVars, closedAtPc>>

EnvUnminimize ==
    /\ Running
    /\ \E w \in iconic : iconic' = iconic \ {w}
    /\ UNCHANGED <<alive, fg, keysDown, joined, progVars, closedAtPc>>

\* A window is closed; its handle stays invalid from then on.  If it owned
\* the foreground, the foreground passes to another window or to none.
EnvClose ==
    /\ Running
    /\ \E w \in alive \cap Closable :
        /\ alive' = alive \ {w}
        /\ iconic' = iconic \ {w}
        /\ IF fg = w THEN fg' \in (alive \ {w}) \cup {NULL} ELSE fg' = fg
        /\ closedAtPc' = IF w = Target THEN pc ELSE closedAtPc
    /\ UNCHANGED <<keysDown, joined, progVars>>

\* The key state is read by the program only in IsAltKeyHeld (line 158),
\* so presses and releases are modelled while the dispatcher sleeps and
\* right before that read.
EnvKeyDown ==
    /\ pc \in {"wait", "alt_check"}
    /\ \E k \in PhysKeys \ keysDown : keysDown' = keysDown \cup {k}
    /\ UNCHANGED <<alive, iconic, fg, joined, progVars, closedAtPc>>

EnvKeyUp ==
    /\ pc \in {"wait", "alt_check"}
    /\ \E k \in keysDown : keysDown' = keysDown \ {k}
    /\ UNCHANGED <<alive, iconic, fg, joined, progVars, closedAtPc>>

Env ==
    \/ EnvFocusChange
    \/ EnvMinimize
    \/ EnvUnminimize
    \/ EnvClose
    \/ EnvKeyDown
    \/ EnvKeyUp

\* liveChecked after IsWindow(h), after GetForegroundWindow() and after a
\* sleep.  A foreground owner is a live window; only the handles the
\* session holds are remembered.
AfterIsWindow(h) == liveChecked \cup {h}
AfterForegroundQuery ==
    liveChecked \cup ({fg} \cap ({g_hTargetWindow, hOriginalForeground} \ {NULL}))
AfterSleep == {}

(***************************************************************************)
(* main: setup (lines 103-140).                                            *)
(***************************************************************************)
sessAll == <<sessVars, actVars, resVars, obsVars>>

\* InitializeLogging: fopen of the log file succeeds or fails.
MainInitLogging ==
    /\ pc = "main_init_logging"
    /\ \E opened \in BOOLEAN :
        pc' = IF opened THEN "main_load_config" ELSE "exit_failure"
    /\ UNCHANGED <<liveChecked, envVars, cfgVars, mainVars, sampleVars, sessAll, calls, closedAtPc>>

MainLoadConfiguration ==
    /\ pc = "main_load_config"
    /\ LET cfg == LoadConfiguration(configFile) IN
        /\ g_min_delay_seconds' = cfg.min
        /\ g_max_delay_seconds' = cfg.max
        /\ loadObs' = [file |-> configFile, warnings |-> cfg.warnings]
    /\ configFile' = ClosedFile
    /\ pc' = "main_select"
    /\ UNCHANGED <<liveChecked, envVars, mainVars, sampleVars, sessAll, calls, closedAtPc>>

\* GetTopLevelWindowFromClick: the window under the click, or NULL when the
\* position query or the hit test fails.
\* Variant: main goes on with whatever the selection returned.
MainSelectWindow_IgnoresNull ==
    /\ pc = "main_select"
    /\ \E h \in ({Target} \cap alive) \cup {NULL} :
        /\ g_hTargetWindow' = h
        /\ pc' = "main_flash"
    /\ liveChecked' = {g_hTargetWindow'} \ {NULL}
    /\ UNCHANGED <<envVars, cfgVars, keystroke_count, sampleVars, sessAll, calls,
                   closedAtPc>>

MainSelectWindow ==
    /\ pc = "main_select"
    /\ \E h \in ({Target} \cap alive) \cup {NULL} :
        /\ g_hTargetWindow' = h
        /\ pc' = IF h = NULL THEN "exit_failure" ELSE "main_flash"
    /\ liveChecked' = {g_hTargetWindow'} \ {NULL}
    /\ UNCHANGED <<envVars, cfgVars, keystroke_count, sampleVars, sessAll, calls,
                   closedAtPc>>

\* FlashTargetWindow and the one-second pause.
MainFlash ==
    /\ pc = "main_flash"
    /\ pc' = "loop_top"
    /\ loadObs' = NoLoad
    /\ liveChecked' = AfterSleep
    /\ lastWaitMs' = FLASH_PAUSE_MS
    /\ UNCHANGED <<envVars, g_min_delay_seconds, g_max_delay_seconds, configFile,
                   mainVars, wait_duration_s, randSource, sessAll, calls, closedAtPc>>

(***************************************************************************)
(* main: the dispatcher loop (lines 143-176).                              *)
(***************************************************************************)
\* Variant of LoopTop without the IsWindow test.
LoopTop_NoLivenessCheck ==
    /\ pc = "loop_top"
    /\ pc' = "sample"
    /\ UNCHANGED <<liveChecked, envVars, cfgVars, mainVars, sampleVars, sessAll, calls,
                   closedAtPc>>

\* Line 144: first liveness check of the cycle.
LoopTop ==
    /\ pc = "loop_top"
    /\ pc' = IF IsWindow(g_hTargetWindow) THEN "sample" ELSE "done"
    /\ liveChecked' = AfterIsWindow(g_hTargetWindow)
    /\ UNCHANGED <<envVars, cfgVars, mainVars, sampleVars, sessAll, calls, closedAtPc>>

\* Line 150: sample the interval.
Sample ==
    /\ pc = "sample"
    /\ \E cryptoSuccess \in BOOLEAN :
        \E random_value \in RandomWords(cryptoSuccess) :
          LET r == GetRandomDelaySeconds(g_min_delay_seconds, g_max_delay_seconds,
                                         cryptoSuccess, random_value) IN
          /\ wait_duration_s' = r.value
          /\ randSource' = r.source
    /\ pc' = "wait"
    /\ UNCHANGED <<liveChecked, envVars, cfgVars, mainVars, lastWaitMs, sessAll, calls,
                   closedAtPc>>

\* Line 156: sleep for the sampled interval.
Wait ==
    /\ pc = "wait"
    /\ pc' = "alt_check"
    /\ wait_duration_s' = NoDelay
    /\ randSource' = "none"
    /\ lastWaitMs' = 0
    /\ liveChecked' = AfterSleep
    /\ UNCHANGED <<envVars, cfgVars, mainVars, sessAll, calls, closedAtPc>>

\* Variant of AltCheck that goes on to the delivery whatever the keys.
AltCheck_NoSkip ==
    /\ pc = "alt_check"
    /\ modAtCheck' = keysDown
    /\ pc' = "recheck"
    /\ UNCHANGED <<liveChecked, envVars, cfgVars, mainVars, sampleVars, sessVars, actVars, resVars,
                   acqOutcome, lastFgQuery, targetIconicObs, calls, closedAtPc>>

\* Line 158: IsAltKeyHeld().
AltCheck ==
    /\ pc = "alt_check"
    /\ modAtCheck' = keysDown
    /\ pc' = IF IsAltKeyHeld(keysDown) THEN "alt_penalty" ELSE "recheck"
    /\ UNCHANGED <<liveChecked, envVars, cfgVars, mainVars, sampleVars, sessVars, actVars, resVars,
                   acqOutcome, lastFgQuery, targetIconicObs, calls, closedAtPc>>

\* Variant of AltPenalty that leaves the loop (`break` for `continue`).
AltPenalty_Breaks ==
    /\ pc = "alt_penalty"
    /\ pc' = "done"
    /\ lastWaitMs' = ALT_KEY_CHECK_DELAY_MS
    /\ liveChecked' = AfterSleep
    /\ UNCHANGED <<envVars, cfgVars, mainVars, wait_duration_s, randSource, sessAll, calls,
                   closedAtPc>>

\* Lines 161-162: the fixed penalty, then `continue`.
AltPenalty ==
    /\ pc = "alt_penalty"
    /\ pc' = "loop_top"
    /\ lastWaitMs' = ALT_KEY_CHECK_DELAY_MS
    /\ liveChecked' = AfterSleep
    /\ UNCHANGED <<envVars, cfgVars, mainVars, wait_duration_s, randSource, sessAll, calls,
                   closedAtPc>>

\* Variant of Recheck without the second IsWindow test.
Recheck_NoLivenessCheck ==
    /\ pc = "recheck"
    /\ keystroke_count < MaxCount
    /\ keystroke_count' = keystroke_count + 1
    /\ pc' = "s_iswindow"
    /\ UNCHANGED <<liveChecked, envVars, cfgVars, g_hTargetWindow, sampleVars, sessAll, calls,
                   closedAtPc>>

\* Lines 165-173: second liveness check; then count and call
\* SendCtrlF5Keystroke.
Recheck ==
    /\ pc = "recheck"
    /\ IF ~IsWindow(g_hTargetWindow)
         THEN /\ pc' = "done"
              /\ UNCHANGED keystroke_count
         ELSE /\ keystroke_count < MaxCount
              /\ keystroke_count' = keystroke_count + 1
              /\ pc' = "s_iswindow"
    /\ liveChecked' = AfterIsWindow(g_hTargetWindow)
    /\ UNCHANGED <<envVars, cfgVars, g_hTargetWindow, sampleVars, sessAll, calls,
                   closedAtPc>>

\* Line 175: pause after the session, then the next cycle begins.
PostDelay ==
    /\ pc = "post_delay"
    /\ pc' = "loop_top"
    /\ calls' = <<>>
    /\ modAtCheck' = {}
    /\ lastWaitMs' = POST_SENDINPUT_DELAY_MS
    /\ liveChecked' = AfterSleep
    /\ UNCHANGED <<envVars, cfgVars, mainVars, wait_duration_s, randSource, sessVars,
                   actVars, resVars, acqOutcome, lastFgQuery, targetIconicObs,
                   closedAtPc>>

(***************************************************************************)
(* SendCtrlF5Keystroke (lines 595-647), with ActivateWindowAndEnsureFocus  *)
(* (472-542) and RestoreOriginalFocus (550-586) inlined at their calls.    *)
(***************************************************************************)
\* What no step of a session changes.
outsideSession == <<cfgVars, mainVars, sampleVars, modAtCheck, closedAtPc, keysDown>>

\* Lines 596-600.
S_IsWindow ==
    /\ pc = "s_iswindow"
    /\ pc' = IF IsWindow(g_hTargetWindow) THEN "s_getfg" ELSE "s_ret"
    /\ liveChecked' = AfterIsWindow(g_hTargetWindow)
    /\ UNCHANGED <<outsideSession, alive, iconic, fg, joined, sessVars, actVars, resVars,
                   calls, acqOutcome, lastFgQuery, targetIconicObs>>

\* Variant of S_GetForeground that calls ActivateWindowAndEnsureFocus
\* whatever the foreground owner is.
S_GetForeground_AlwaysActivates ==
    /\ pc = "s_getfg"
    /\ hOriginalForeground' = fg
    /\ lastFgQuery' = FgObservation(fg)
    /\ targetWasAlreadyForeground' = (fg = g_hTargetWindow)
    /\ focusSetForInput' = (fg = g_hTargetWindow)
    /\ acqOutcome' = IF fg = g_hTargetWindow THEN "SECURED" ELSE acqOutcome
    /\ pc' = "a_entry"
    /\ liveChecked' = liveChecked \cup ({fg} \ {NULL})
    /\ UNCHANGED <<outsideSession, alive, iconic, fg, joined, actVars, resVars, calls,
                   targetIconicObs>>

\* Lines 602-610: who owns the foreground now?
S_GetForeground ==
    /\ pc = "s_getfg"
    /\ hOriginalForeground' = fg
    /\ lastFgQuery' = FgObservation(fg)
    /\ targetWasAlreadyForeground' = (fg = g_hTargetWindow)
    /\ focusSetForInput' = (fg = g_hTargetWindow)
    /\ acqOutcome' = IF fg = g_hTargetWindow THEN "SECURED" ELSE acqOutcome
    /\ pc' = IF fg = g_hTargetWindow THEN "s_final" ELSE "a_entry"
    /\ liveChecked' = liveChecked \cup ({fg} \ {NULL})
    /\ UNCHANGED <<outsideSession, alive, iconic, fg, joined, actVars, resVars, calls,
                   targetIconicObs>>

\* Lines 473-485: entry of ActivateWindowAndEnsureFocus.
A_Entry ==
    /\ pc = "a_entry"
    /\ IF hOriginalForeground = g_hTargetWindow
         THEN /\ focusSetForInput' = TRUE
              /\ pc' = "s_final"
              /\ UNCHANGED actVars
         ELSE /\ dwTargetThreadId' = GetWindowThreadProcessId(g_hTargetWindow)
              /\ dwOriginalForegroundThreadId' =
                     GetWindowThreadProcessId(hOriginalForeground)
              /\ attachedToTarget' = FALSE
              /\ attachedToOriginalFG' = FALSE
              /\ attempt_i' = 0
              /\ focusSet' = FALSE
              /\ pc' = "a_attach_t"
              /\ UNCHANGED focusSetForInput
    /\ UNCHANGED <<liveChecked, outsideSession, alive, iconic, fg, joined, hOriginalForeground,
                   targetWasAlreadyForeground, resVars, calls, acqOutcome, lastFgQuery,
                   targetIconicObs>>

\* Variant: a failed join ends the activation at once, as a failure.
A_AttachTarget_AbortsOnFailure ==
    /\ pc = "a_attach_t"
    /\ IF dwTargetThreadId # 0 /\ dwTargetThreadId # CurrentThreadId
         THEN \E ok \in BOOLEAN :
                /\ attachedToTarget' = ok
                /\ joined' = IF ok THEN joined \cup {dwTargetThreadId} ELSE joined
                /\ calls' = Append(calls, CallAttach(dwTargetThreadId, TRUE, ok))
                /\ pc' = IF ok THEN "a_attach_o" ELSE "a_detach_o"
                /\ acqOutcome' = IF ok THEN acqOutcome ELSE "FAILED"
         ELSE /\ pc' = "a_attach_o"
              /\ UNCHANGED <<attachedToTarget, joined, calls, acqOutcome>>
    /\ UNCHANGED <<liveChecked, outsideSession, alive, iconic, fg, sessVars, dwTargetThreadId,
                   dwOriginalForegroundThreadId, attachedToOriginalFG, attempt_i, focusSet,
                   resVars, lastFgQuery, targetIconicObs>>

\* Lines 487-493: join the target's thread.
A_AttachTarget ==
    /\ pc = "a_attach_t"
    /\ IF dwTargetThreadId # 0 /\ dwTargetThreadId # CurrentThreadId
         THEN \E ok \in BOOLEAN :
                /\ attachedToTarget' = ok
                /\ joined' = IF ok THEN joined \cup {dwTargetThreadId} ELSE joined
                /\ calls' = Append(calls, CallAttach(dwTargetThreadId, TRUE, ok))
         ELSE UNCHANGED <<attachedToTarget, joined, calls>>
    /\ pc' = "a_attach_o"
    /\ UNCHANGED <<liveChecked, outsideSession, alive, iconic, fg, sessVars, dwTargetThreadId,
                   dwOriginalForegroundThreadId, attachedToOriginalFG, attempt_i, focusSet,
                   resVars, acqOutcome, lastFgQuery, targetIconicObs>>

\* Lines 494-502: join the original foreground owner's thread.
A_AttachOriginal ==
    /\ pc = "a_attach_o"
    /\ IF /\ hOriginalForeground # NULL
          /\ dwOriginalForegroundThreadId # 0
          /\ dwOriginalForegroundThreadId # CurrentThreadId
          /\ dwOriginalForegroundThreadId # dwTargetThreadId
         THEN \E ok \in BOOLEAN :
                /\ attachedToOriginalFG' = ok
                /\ joined' = IF ok THEN joined \cup {dwOriginalForegroundThreadId}
                                   ELSE joined
                /\ calls' = Append(calls,
                                   CallAttach(dwOriginalForegroundThreadId, TRUE, ok))
         ELSE UNCHANGED <<attachedToOriginalFG, joined, calls>>
    /\ pc' = "a_iconic"
    /\ UNCHANGED <<liveChecked, outsideSession, alive, iconic, fg, sessVars, dwTargetThreadId,
                   dwOriginalForegroundThreadId, attachedToTarget, attempt_i, focusSet,
                   resVars, acqOutcome, lastFgQuery, targetIconicObs>>

\* Lines 504-506: restore a minimized target.
A_Iconic ==
    /\ pc = "a_iconic"
    /\ IF IsIconic(g_hTargetWindow)
         THEN /\ calls' = Append(calls, CallShowWindow(g_hTargetWindow))
              /\ iconic' = iconic \ {g_hTargetWindow}
              /\ fg' \in FgAfterRequest(g_hTargetWindow)
              /\ pc' = "a_iconic_wait"
         ELSE /\ pc' = "a_sfw"
              /\ UNCHANGED <<calls, iconic, fg>>
    /\ UNCHANGED <<liveChecked, outsideSession, alive, joined, sessVars, actVars, resVars, acqOutcome,
                   lastFgQuery, targetIconicObs>>

\* Line 507.
A_IconicWait ==
    /\ pc = "a_iconic_wait"
    /\ pc' = "a_sfw"
    /\ liveChecked' = AfterSleep
    /\ UNCHANGED <<outsideSession, alive, iconic, fg, joined, sessVars, actVars, resVars,
                   calls, acqOutcome, lastFgQuery, targetIconicObs>>

\* Lines 511-512: one activation attempt.
A_SetForeground ==
    /\ pc = "a_sfw"
    /\ attempt_i < FOCUS_SWITCH_ATTEMPTS
    /\ calls' = Append(calls, CallSetForeground(g_hTargetWindow))
    /\ fg' \in FgAfterRequest(g_hTargetWindow)
    /\ pc' = "a_sfw_wait"
    /\ UNCHANGED <<liveChecked, outsideSession, alive, iconic, joined, sessVars, actVars, resVars,
                   acqOutcome, lastFgQuery, targetIconicObs>>

\* Line 513.
A_SfwWait ==
    /\ pc = "a_sfw_wait"
    /\ pc' = "a_check"
    /\ liveChecked' = AfterSleep
    /\ UNCHANGED <<outsideSession, alive, iconic, fg, joined, sessVars, actVars, resVars,
                   calls, acqOutcome, lastFgQuery, targetIconicObs>>

\* Variant: a successful check is recorded but the loop does not break.
A_Check_NoBreak ==
    /\ pc = "a_check"
    /\ lastFgQuery' = FgObservation(fg)
    /\ IF fg = g_hTargetWindow
         THEN /\ focusSet' = TRUE
              /\ pc' = "a_fail_log"
         ELSE /\ pc' = "a_fail_log"
              /\ UNCHANGED focusSet
    /\ liveChecked' = AfterForegroundQuery
    /\ UNCHANGED <<outsideSession, alive, iconic, fg, joined, sessVars, dwTargetThreadId,
                   dwOriginalForegroundThreadId, attachedToTarget, attachedToOriginalFG,
                   attempt_i, resVars, calls, acqOutcome, targetIconicObs>>

\* Lines 514-518: did the attempt take?
A_Check ==
    /\ pc = "a_check"
    /\ lastFgQuery' = FgObservation(fg)
    /\ IF fg = g_hTargetWindow
         THEN /\ focusSet' = TRUE
              /\ pc' = "a_settle_wait"
         ELSE /\ pc' = "a_fail_log"
              /\ UNCHANGED focusSet
    /\ liveChecked' = AfterForegroundQuery
    /\ UNCHANGED <<outsideSession, alive, iconic, fg, joined, sessVars, dwTargetThreadId,
                   dwOriginalForegroundThreadId, attachedToTarget, attachedToOriginalFG,
                   attempt_i, resVars, calls, acqOutcome, targetIconicObs>>

\* Variant: the loop allows one attempt more than FOCUS_SWITCH_ATTEMPTS.
A_FailLog_OneMore ==
    /\ pc = "a_fail_log"
    /\ lastFgQuery' = FgObservation(fg)
    /\ attempt_i' = attempt_i + 1
    /\ IF attempt_i + 1 < FOCUS_SWITCH_ATTEMPTS + 1
         THEN /\ pc' = "a_sfw"
              /\ UNCHANGED acqOutcome
         ELSE /\ pc' = "a_detach_o"
              /\ acqOutcome' = "FAILED"
    /\ liveChecked' = AfterForegroundQuery
    /\ UNCHANGED <<outsideSession, alive, iconic, fg, joined, sessVars, dwTargetThreadId,
                   dwOriginalForegroundThreadId, attachedToTarget, attachedToOriginalFG,
                   focusSet, resVars, calls, targetIconicObs>>

\* Lines 519-521 and 533-535: log the failed attempt (the log argument
\* queries the foreground again), then retry or give up.
A_FailLog ==
    /\ pc = "a_fail_log"
    /\ lastFgQuery' = FgObservation(fg)
    /\ attempt_i' = attempt_i + 1
    /\ IF attempt_i + 1 < FOCUS_SWITCH_ATTEMPTS
         THEN /\ pc' = "a_sfw"
              /\ UNCHANGED acqOutcome
         ELSE /\ pc' = "a_detach_o"
              /\ acqOutcome' = "FAILED"
    /\ liveChecked' = AfterForegroundQuery
    /\ UNCHANGED <<outsideSession, alive, iconic, fg, joined, sessVars, dwTargetThreadId,
                   dwOriginalForegroundThreadId, attachedToTarget, attachedToOriginalFG,
                   focusSet, resVars, calls, targetIconicObs>>

\* Line 525: the settle delay.
A_SettleWait ==
    /\ pc = "a_settle_wait"
    /\ pc' = "a_settle_check"
    /\ liveChecked' = AfterSleep
    /\ UNCHANGED <<outsideSession, alive, iconic, fg, joined, sessVars, actVars, resVars,
                   calls, acqOutcome, lastFgQuery, targetIconicObs>>

\* Line 526: is the target still the foreground owner?
A_SettleCheck ==
    /\ pc = "a_settle_check"
    /\ lastFgQuery' = FgObservation(fg)
    /\ acqOutcome' = IF fg = g_hTargetWindow THEN "SECURED" ELSE "FAILED"
    /\ pc' = IF fg = g_hTargetWindow THEN "a_detach_o" ELSE "a_lost_log"
    /\ liveChecked' = AfterForegroundQuery
    /\ UNCHANGED <<outsideSession, alive, iconic, fg, joined, sessVars, actVars, resVars,
                   calls, targetIconicObs>>

\* Variant of A_LostLog that logs the loss but leaves focusSet set.
A_LostLog_KeepsFocusSet ==
    /\ pc = "a_lost_log"
    /\ lastFgQuery' = FgObservation(fg)
    /\ pc' = "a_detach_o"
    /\ liveChecked' = AfterForegroundQuery
    /\ UNCHANGED <<outsideSession, alive, iconic, fg, joined, sessVars, actVars, resVars,
                   calls, acqOutcome, targetIconicObs>>

\* Lines 527-529: focus was lost during the settle delay.
A_LostLog ==
    /\ pc = "a_lost_log"
    /\ lastFgQuery' = FgObservation(fg)
    /\ focusSet' = FALSE
    /\ pc' = "a_detach_o"
    /\ liveChecked' = AfterForegroundQuery
    /\ UNCHANGED <<outsideSession, alive, iconic, fg, joined, sessVars, dwTargetThreadId,
                   dwOriginalForegroundThreadId, attachedToTarget, attachedToOriginalFG,
                   attempt_i, resVars, calls, acqOutcome, targetIconicObs>>

\* Variant: both joins are released here, the target's first.
A_DetachOriginal_TargetFirst ==
    /\ pc = "a_detach_o"
    /\ LET unjoinT == IF attachedToTarget
                        THEN <<CallAttach(dwTargetThreadId, FALSE,
                                          dwTargetThreadId \in joined)>>
                        ELSE <<>>
           unjoinO == IF attachedToOriginalFG
                        THEN <<CallAttach(dwOriginalForegroundThreadId, FALSE,
                                          dwOriginalForegroundThreadId \in joined)>>
                        ELSE <<>>
       IN /\ calls' = calls \o unjoinT \o unjoinO
          /\ joined' = (joined \ (IF attachedToTarget THEN {dwTargetThreadId} ELSE {}))
                            \ (IF attachedToOriginalFG
                                  THEN {dwOriginalForegroundThreadId} ELSE {})
    /\ attachedToTarget' = FALSE
    /\ pc' = "a_detach_t"
    /\ UNCHANGED <<liveChecked, outsideSession, alive, iconic, fg, sessVars, dwTargetThreadId,
                   dwOriginalForegroundThreadId, attachedToOriginalFG, attempt_i, focusSet,
                   resVars, acqOutcome, lastFgQuery, targetIconicObs>>

\* Variant of A_DetachOriginal that leaves the join of the original
\* owner's thread in place.
A_DetachOriginal_KeepsJoin ==
    /\ pc = "a_detach_o"
    /\ pc' = "a_detach_t"
    /\ UNCHANGED <<liveChecked, outsideSession, alive, iconic, fg, joined, sessVars, actVars,
                   resVars, calls, acqOutcome, lastFgQuery, targetIconicObs>>

\* Line 538.
A_DetachOriginal ==
    /\ pc = "a_detach_o"
    /\ IF attachedToOriginalFG
         THEN /\ calls' = Append(calls,
                     CallAttach(dwOriginalForegroundThreadId, FALSE,
                                dwOriginalForegroundThreadId \in joined))
              /\ joined' = joined \ {dwOriginalForegroundThreadId}
         ELSE UNCHANGED <<calls, joined>>
    /\ pc' = "a_detach_t"
    /\ UNCHANGED <<liveChecked, outsideSession, alive, iconic, fg, sessVars, actVars, resVars,
                   acqOutcome, lastFgQuery, targetIconicObs>>

\* Variant of A_DetachTarget that returns early, without the unjoin, when
\* the activation failed.
A_DetachTarget_SkipsOnFailure ==
    /\ pc = "a_detach_t"
    /\ IF attachedToTarget /\ focusSet
         THEN /\ calls' = Append(calls,
                     CallAttach(dwTargetThreadId, FALSE, dwTargetThreadId \in joined))
              /\ joined' = joined \ {dwTargetThreadId}
         ELSE UNCHANGED <<calls, joined>>
    /\ focusSetForInput' = focusSet
    /\ dwTargetThreadId' = 0
    /\ dwOriginalForegroundThreadId' = 0
    /\ attachedToTarget' = FALSE
    /\ attachedToOriginalFG' = FALSE
    /\ attempt_i' = 0
    /\ focusSet' = FALSE
    /\ pc' = "s_final"
    /\ UNCHANGED <<liveChecked, outsideSession, alive, iconic, fg, hOriginalForeground,
                   targetWasAlreadyForeground, resVars, acqOutcome, lastFgQuery,
                   targetIconicObs>>

\* Lines 539-541, and the assignment of the result at line 607.  The
\* function returns, so its locals cease to exist.
A_DetachTarget ==
    /\ pc = "a_detach_t"
    /\ IF attachedToTarget
         THEN /\ calls' = Append(calls,
                     CallAttach(dwTargetThreadId, FALSE, dwTargetThreadId \in joined))
              /\ joined' = joined \ {dwTargetThreadId}
         ELSE UNCHANGED <<calls, joined>>
    /\ focusSetForInput' = focusSet
    /\ dwTargetThreadId' = 0
    /\ dwOriginalForegroundThreadId' = 0
    /\ attachedToTarget' = FALSE
    /\ attachedToOriginalFG' = FALSE
    /\ attempt_i' = 0
    /\ focusSet' = FALSE
    /\ pc' = "s_final"
    /\ UNCHANGED <<liveChecked, outsideSession, alive, iconic, fg, hOriginalForeground,
                   targetWasAlreadyForeground, resVars, acqOutcome, lastFgQuery,
                   targetIconicObs>>

\* Lines 612-617 and 638-641: with focus secured, a last look at whether
\* the target is minimized.
S_FinalIconic ==
    /\ pc = "s_final"
    /\ IF ~focusSetForInput
         THEN /\ pc' = "s_restore"
              /\ UNCHANGED <<calls, iconic, fg, targetIconicObs>>
         ELSE IF IsIconic(g_hTargetWindow)
           THEN /\ calls' = Append(calls, CallShowWindow(g_hTargetWindow))
                /\ iconic' = iconic \ {g_hTargetWindow}
                /\ fg' \in FgAfterRequest(g_hTargetWindow)
                /\ targetIconicObs' = "restored"
                /\ pc' = "s_final_wait"
           ELSE /\ targetIconicObs' = "not_iconic"
                /\ pc' = "s_send"
                /\ UNCHANGED <<calls, iconic, fg>>
    /\ UNCHANGED <<liveChecked, outsideSession, alive, joined, sessVars, actVars, resVars, acqOutcome,
                   lastFgQuery>>

\* Line 617.
S_FinalWait ==
    /\ pc = "s_final_wait"
    /\ pc' = "s_final_check"
    /\ liveChecked' = AfterSleep
    /\ UNCHANGED <<outsideSession, alive, iconic, fg, joined, sessVars, actVars, resVars,
                   calls, acqOutcome, lastFgQuery, targetIconicObs>>

\* Variant of S_FinalCheck that queries the foreground but does not act on
\* the answer.
S_FinalCheck_IgnoresLoss ==
    /\ pc = "s_final_check"
    /\ lastFgQuery' = FgObservation(fg)
    /\ targetIconicObs' = IF fg = g_hTargetWindow THEN "reverified" ELSE targetIconicObs
    /\ pc' = "s_send"
    /\ liveChecked' = AfterForegroundQuery
    /\ UNCHANGED <<outsideSession, alive, iconic, fg, joined, sessVars, actVars, resVars,
                   calls, acqOutcome>>

\* Lines 618-621: after the restore, is the target still foreground?
S_FinalCheck ==
    /\ pc = "s_final_check"
    /\ lastFgQuery' = FgObservation(fg)
    /\ IF fg # g_hTargetWindow
         THEN /\ focusSetForInput' = FALSE
              /\ UNCHANGED targetIconicObs
         ELSE /\ targetIconicObs' = "reverified"
              /\ UNCHANGED focusSetForInput
    /\ pc' = "s_send"
    /\ liveChecked' = AfterForegroundQuery
    /\ UNCHANGED <<outsideSession, alive, iconic, fg, joined, hOriginalForeground,
                   targetWasAlreadyForeground, actVars, resVars, calls, acqOutcome>>

\* Variant of S_SendInput that calls SendInput again while the OS has
\* accepted fewer events than the combo holds.
S_SendInput_Retries ==
    /\ pc = "s_send"
    /\ IF focusSetForInput
         THEN \E uSent \in 0..ComboLen :
                /\ calls' = Append(calls, CallSendInput(uSent))
                /\ pc' = IF uSent = ComboLen \/ Len(calls) >= ComboLen
                           THEN "s_restore" ELSE "s_send"
         ELSE /\ pc' = "s_restore"
              /\ UNCHANGED calls
    /\ UNCHANGED <<liveChecked, outsideSession, alive, iconic, fg, joined, sessVars,
                   actVars, resVars, acqOutcome, lastFgQuery, targetIconicObs>>

\* Lines 624-637: the whole combo in one SendInput call; the OS accepts
\* between 0 and 4 of the events.
S_SendInput ==
    /\ pc = "s_send"
    /\ IF focusSetForInput
         THEN \E uSent \in 0..ComboLen : calls' = Append(calls, CallSendInput(uSent))
         ELSE UNCHANGED calls
    /\ pc' = "s_restore"
    /\ UNCHANGED <<liveChecked, outsideSession, alive, iconic, fg, joined, sessVars, actVars, resVars,
                   acqOutcome, lastFgQuery, targetIconicObs>>

\* Variant: the restore goes ahead whether or not focus was secured.
RestoreProceeds_IgnoresOutcome ==
    /\ ~targetWasAlreadyForeground
    /\ ~(\/ hOriginalForeground = g_hTargetWindow
         \/ hOriginalForeground = NULL
         \/ ~IsWindow(hOriginalForeground))

\* Lines 644-646 and 551-558: call RestoreOriginalFocus unless the target
\* was foreground from the start; its two early returns.  When the restore
\* goes ahead, `calls` starts over: it then lists the calls of the restore.
RestoreProceeds ==
    /\ ~targetWasAlreadyForeground
    /\ ~(\/ hOriginalForeground = g_hTargetWindow
         \/ hOriginalForeground = NULL
         \/ ~IsWindow(hOriginalForeground))
    /\ focusSetForInput

S_CallRestore ==
    /\ pc = "s_restore"
    /\ IF RestoreProceeds
         THEN /\ pc' = "r_getfg"
              /\ calls' = <<>>
              /\ targetIconicObs' = "NONE"
         ELSE /\ pc' = "s_ret"
              /\ UNCHANGED <<calls, targetIconicObs>>
    /\ liveChecked' = IF /\ ~targetWasAlreadyForeground
                         /\ hOriginalForeground \notin {g_hTargetWindow, NULL}
                        THEN AfterIsWindow(hOriginalForeground)
                        ELSE liveChecked
    /\ UNCHANGED <<outsideSession, alive, iconic, fg, joined, sessVars, actVars, resVars,
                   acqOutcome, lastFgQuery>>

\* Variant: the restore is attempted whatever the foreground owner is.
R_GetForeground_AlwaysRestores ==
    /\ pc = "r_getfg"
    /\ currentFgAfterInput' = fg
    /\ lastFgQuery' = FgObservation(fg)
    /\ pc' = "r_wait"
    /\ liveChecked' = AfterForegroundQuery
    /\ UNCHANGED <<outsideSession, alive, iconic, fg, joined, sessVars, actVars,
                   dwOriginalFGThreadId, needsAttach, calls, acqOutcome, targetIconicObs>>

\* Lines 560-562.
R_GetForeground ==
    /\ pc = "r_getfg"
    /\ currentFgAfterInput' = fg
    /\ lastFgQuery' = FgObservation(fg)
    /\ pc' = IF fg = g_hTargetWindow \/ fg # hOriginalForeground
               THEN "r_wait" ELSE "s_ret"
    /\ liveChecked' = AfterForegroundQuery
    /\ UNCHANGED <<outsideSession, alive, iconic, fg, joined, sessVars, actVars,
                   dwOriginalFGThreadId, needsAttach, calls, acqOutcome, targetIconicObs>>

\* Line 564.
R_Wait ==
    /\ pc = "r_wait"
    /\ pc' = "r_tid"
    /\ liveChecked' = AfterSleep
    /\ UNCHANGED <<outsideSession, alive, iconic, fg, joined, sessVars, actVars, resVars,
                   calls, acqOutcome, lastFgQuery, targetIconicObs>>

\* Lines 566-568.
R_ThreadId ==
    /\ pc = "r_tid"
    /\ dwOriginalFGThreadId' = GetWindowThreadProcessId(hOriginalForeground)
    /\ needsAttach' = LET tid == GetWindowThreadProcessId(hOriginalForeground)
                      IN tid # 0 /\ tid # CurrentThreadId
    /\ pc' = "r_attach"
    /\ UNCHANGED <<liveChecked, outsideSession, alive, iconic, fg, joined, sessVars, actVars,
                   currentFgAfterInput, calls, acqOutcome, lastFgQuery, targetIconicObs>>

\* Line 570: the result of the join is not looked at.
R_Attach ==
    /\ pc = "r_attach"
    /\ IF needsAttach
         THEN \E ok \in BOOLEAN :
                /\ joined' = IF ok THEN joined \cup {dwOriginalFGThreadId} ELSE joined
                /\ calls' = Append(calls, CallAttach(dwOriginalFGThreadId, TRUE, ok))
         ELSE UNCHANGED <<joined, calls>>
    /\ pc' = "r_iconic"
    /\ UNCHANGED <<liveChecked, outsideSession, alive, iconic, fg, sessVars, actVars, resVars,
                   acqOutcome, lastFgQuery, targetIconicObs>>

\* Line 572.
R_Iconic ==
    /\ pc = "r_iconic"
    /\ IF IsIconic(hOriginalForeground)
         THEN /\ calls' = Append(calls, CallShowWindow(hOriginalForeground))
              /\ iconic' = iconic \ {hOriginalForeground}
              /\ fg' \in FgAfterRequest(hOriginalForeground)
         ELSE UNCHANGED <<calls, iconic, fg>>
    /\ pc' = "r_sfw"
    /\ UNCHANGED <<liveChecked, outsideSession, alive, joined, sessVars, actVars, resVars, acqOutcome,
                   lastFgQuery, targetIconicObs>>

\* Line 573: a single attempt.
R_SetForeground ==
    /\ pc = "r_sfw"
    /\ calls' = Append(calls, CallSetForeground(hOriginalForeground))
    /\ fg' \in FgAfterRequest(hOriginalForeground)
    /\ pc' = "r_detach"
    /\ UNCHANGED <<liveChecked, outsideSession, alive, iconic, joined, sessVars, actVars, resVars,
                   acqOutcome, lastFgQuery, targetIconicObs>>

\* Line 575.
R_Detach ==
    /\ pc = "r_detach"
    /\ IF needsAttach
         THEN /\ calls' = Append(calls,
                     CallAttach(dwOriginalFGThreadId, FALSE, dwOriginalFGThreadId \in joined))
              /\ joined' = joined \ {dwOriginalFGThreadId}
         ELSE UNCHANGED <<calls, joined>>
    /\ pc' = "r_verify"
    /\ UNCHANGED <<liveChecked, outsideSession, alive, iconic, fg, sessVars, actVars, resVars,
                   acqOutcome, lastFgQuery, targetIconicObs>>

\* Lines 577-579.
R_Verify ==
    /\ pc = "r_verify"
    /\ lastFgQuery' = FgObservation(fg)
    /\ pc' = IF fg = hOriginalForeground THEN "s_ret" ELSE "r_fail_log"
    /\ liveChecked' = AfterForegroundQuery
    /\ UNCHANGED <<outsideSession, alive, iconic, fg, joined, sessVars, actVars, resVars,
                   calls, acqOutcome, targetIconicObs>>

\* Lines 580-581: the warning's argument queries the foreground again.
R_FailLog ==
    /\ pc = "r_fail_log"
    /\ lastFgQuery' = FgObservation(fg)
    /\ pc' = "s_ret"
    /\ liveChecked' = AfterForegroundQuery
    /\ UNCHANGED <<outsideSession, alive, iconic, fg, joined, sessVars, actVars, resVars,
                   calls, acqOutcome, targetIconicObs>>

\* Line 647: SendCtrlF5Keystroke returns to main.
S_Return ==
    /\ pc = "s_ret"
    /\ ResetSessionLocals
    /\ pc' = "post_delay"
    /\ UNCHANGED <<liveChecked, outsideSession, alive, iconic, fg, joined, calls>>

(***************************************************************************)
(* Specifications.                                                         *)
(***************************************************************************)
Setup == MainInitLogging \/ MainLoadConfiguration \/ MainSelectWindow \/ MainFlash

Dispatcher == LoopTop \/ Sample \/ Wait \/ AltCheck \/ AltPenalty \/ Recheck \/ PostDelay

Activate ==
    \/ A_Entry \/ A_AttachTarget \/ A_AttachOriginal \/ A_Iconic \/ A_IconicWait
    \/ A_SetForeground \/ A_SfwWait \/ A_Check \/ A_FailLog \/ A_SettleWait
    \/ A_SettleCheck \/ A_LostLog \/ A_DetachOriginal \/ A_DetachTarget

Restore ==
    \/ R_GetForeground \/ R_Wait \/ R_ThreadId \/ R_Attach \/ R_Iconic
    \/ R_SetForeground \/ R_Detach \/ R_Verify \/ R_FailLog

Session ==
    \/ S_IsWindow \/ S_GetForeground \/ S_FinalIconic \/ S_FinalWait \/ S_FinalCheck
    \/ S_SendInput \/ S_CallRestore \/ S_Return

\* One step of the program's single thread.
Program == Setup \/ Dispatcher \/ Session \/ Activate \/ Restore

Next == Program \/ Env

Spec == Init /\ [][Next]_vars

\* Every sleep returns and every OS call completes: the thread keeps running.
FairSpec == Spec /\ WF_vars(Program)

(***************************************************************************)
(* GetRandomDelaySeconds on its own: every pair of bounds the loader can   *)
(* produce (min <= max), one sample.                                       *)
(***************************************************************************)
InitRandom ==
    /\ InitCommon
    /\ pc = "sample"
    /\ configFile = ClosedFile
    /\ g_min_delay_seconds \in 1..MaxDelay
    /\ g_max_delay_seconds \in g_min_delay_seconds..MaxDelay

NextRandom == Sample

SpecRandom == InitRandom /\ [][NextRandom]_vars

(***************************************************************************)
(* LoadConfiguration on its own: main is about to call it, with any of the *)
(* explored files on disk.                                                 *)
(***************************************************************************)
InitConfig ==
    /\ InitCommon
    /\ pc = "main_load_config"
    /\ configFile \in ConfigFiles
    /\ g_min_delay_seconds = DEFAULT_MIN_DELAY_S
    /\ g_max_delay_seconds = DEFAULT_MAX_DELAY_S

NextConfig == MainLoadConfiguration

SpecConfig == InitConfig /\ [][NextConfig]_vars

(***************************************************************************)
(* Vocabulary of the properties.                                           *)
(***************************************************************************)
ActivatePcs ==
    {"a_entry", "a_attach_t", "a_attach_o", "a_iconic", "a_iconic_wait", "a_sfw",
     "a_sfw_wait", "a_check", "a_fail_log", "a_settle_wait", "a_settle_check",
     "a_lost_log", "a_detach_o", "a_detach_t"}
RestorePcs ==
    {"r_getfg", "r_wait", "r_tid", "r_attach", "r_iconic", "r_sfw", "r_detach",
     "r_verify", "r_fail_log"}
SessionPcs ==
    {"s_iswindow", "s_getfg", "s_final", "s_final_wait", "s_final_check", "s_send",
     "s_restore", "s_ret"} \cup ActivatePcs \cup RestorePcs

CallsOf(log, op) == {k \in 1..Len(log) : log[k].op = op}
NoSendInput(log) == CallsOf(log, "SendInput") = {}
SuccessfulJoins(log) ==
    {k \in CallsOf(log, "AttachThreadInput") : log[k].fAttach /\ log[k].ok}
UnjoinsAfter(log, k) ==
    {m \in CallsOf(log, "AttachThreadInput") :
        m > k /\ ~log[m].fAttach /\ log[m].tid = log[k].tid}
AnyAltDown(keys) == keys \cap {"LALT", "RALT"} # {}
\* This step issues SendInput.
SendInputIssued ==
    /\ Len(calls') = Len(calls) + 1
    /\ calls'[Len(calls')].op = "SendInput"

(***************************************************************************)
(* Properties.                                                             *)
(***************************************************************************)

\* C1: when the acquisition outcome of a session is FAILED (three attempts
\* never saw the target in the foreground, or the check after the settle
\* delay saw it gone), no SendInput call is issued in that cycle.
C1_FailedNeverInjects == acqOutcome = "FAILED" => NoSendInput(calls)

\* The session has returned after losing the focus during the settle delay:
\* one activation attempt was enough, yet the outcome is FAILED.
C1_Witness ==
    /\ pc = "s_ret"
    /\ acqOutcome = "FAILED"
    /\ Cardinality(CallsOf(calls, "SetForegroundWindow")) = 1

\* C2: at the end of the acquisition phase and when SendCtrlF5Keystroke
\* returns, every successful join of the phase's calls is followed by
\* exactly one unjoin of the same thread pair.
C2_JoinsBalanced ==
    pc \in {"s_final", "s_ret"} =>
        \A k \in SuccessfulJoins(calls) : Cardinality(UnjoinsAfter(calls, k)) = 1

\* A session with outcome FAILED that had joined a thread has returned.
C2_Witness ==
    /\ pc = "s_ret"
    /\ acqOutcome = "FAILED"
    /\ SuccessfulJoins(calls) # {}

\* C3: in a session that finds the target already in the foreground, the
\* outcome is SECURED, neither the activation nor the restore is entered,
\* and the only calls are ShowWindow on the target and SendInput.
C3_AlreadyForeground ==
    (pc \in SessionPcs \ {"s_iswindow", "s_getfg"} /\ hOriginalForeground = Target) =>
        /\ acqOutcome = "SECURED"
        /\ pc \notin ActivatePcs \cup RestorePcs
        /\ CallsOf(calls, "AttachThreadInput") = {}
        /\ CallsOf(calls, "SetForegroundWindow") = {}
        /\ \A k \in CallsOf(calls, "ShowWindow") : calls[k].hwnd = Target

\* Such a session has injected the combo and returned.
C3_Witness ==
    /\ pc = "s_ret"
    /\ hOriginalForeground = Target
    /\ ~NoSendInput(calls)

\* C4: if the target is closed between the start of the randomized wait and
\* the liveness re-check, the cycle never enters SendCtrlF5Keystroke, issues
\* no SendInput, and the loop terminates, modifier held or not.
C4_ClosedDuringWait == closedAtPc \in {"wait", "alt_check", "recheck"}

C4_ClosedDuringWaitTerminates ==
    /\ [](C4_ClosedDuringWait => (pc \notin SessionPcs /\ NoSendInput(calls)))
    /\ (C4_ClosedDuringWait ~> (pc = "done"))

\* The loop has ended after the target was closed during the wait while an
\* Alt key was held.
C4_Witness ==
    /\ pc = "done"
    /\ closedAtPc = "wait"
    /\ AnyAltDown(modAtCheck)

\* C5 as stated: if the Control key is held at the modifier check, no
\* SendInput call is issued in that cycle.
C5_CtrlHeldNeverInjects == ("CTRL" \in modAtCheck) => NoSendInput(calls)

\* C5 as amended: if an Alt key (generic, left or right) is held at the
\* modifier check, the cycle is aborted and no SendInput call is issued.
C5_AltHeldNeverInjects ==
    AnyAltDown(modAtCheck) => (pc \notin SessionPcs /\ NoSendInput(calls))

\* The cycle was aborted with only the right Alt key held.
C5_Witness == pc = "alt_penalty" /\ modAtCheck = {"RALT"}

\* C6: after a cycle was aborted because the modifier was held, and until
\* the next delivery attempt, the dispatcher samples no new randomized
\* interval.
C6_NoResampleAfterAbort == AnyAltDown(modAtCheck) => wait_duration_s = NoDelay

\* C7: the dispatcher loop is left only from one of its two IsWindow checks,
\* and only when the check finds the target gone.
C7_ExitOnlyWhenTargetGone ==
    [][(pc # "done" /\ pc' = "done") =>
          (pc \in {"loop_top", "recheck"} /\ ~IsWindow(g_hTargetWindow))]_vars

\* A session whose SendInput was accepted only in part has returned, and
\* the loop goes on with the pause before the next cycle.
C7_Witness ==
    /\ pc = "post_delay"
    /\ \E k \in CallsOf(calls, "SendInput") : ~calls[k].ok

\* C8: whenever SendInput is issued, the latest foreground query returned
\* the target, and the target was seen not minimized or was restored and
\* then seen in the foreground again.
C8_InjectOnlyWhenVerified ==
    [][SendInputIssued =>
          (/\ lastFgQuery = "TARGET"
           /\ targetIconicObs \in {"not_iconic", "reverified"})]_vars

\* SendInput was issued after a minimized target was restored and verified.
C8_Witness ==
    /\ pc = "s_restore"
    /\ ~NoSendInput(calls)
    /\ targetIconicObs = "reverified"

\* C9: with min < max, the sampled delay v satisfies min <= v < max.
C9_SampleBelowMax ==
    (pc = "wait" /\ g_min_delay_seconds < g_max_delay_seconds) =>
        /\ g_min_delay_seconds * wait_duration_s.den <= wait_duration_s.num
        /\ wait_duration_s.num < g_max_delay_seconds * wait_duration_s.den

\* C10: with min = max, the sample is exactly min and no random source is
\* consulted.
C10_EqualBoundsReturnMin ==
    (pc = "wait" /\ g_min_delay_seconds = g_max_delay_seconds) =>
        /\ wait_duration_s.num = g_min_delay_seconds * wait_duration_s.den
        /\ randSource = "none"

\* A sample was taken with min = max.
C10_Witness == pc = "wait" /\ g_min_delay_seconds = g_max_delay_seconds

(***************************************************************************)
(* Properties of LoadConfiguration.                                        *)
(***************************************************************************)
\* Lines of the file that give `key` a value, in range or out of range.
InRangeLines(file, key) ==
    {k \in 1..Len(file.lines) :
        /\ file.lines[k].kind = "kv" /\ file.lines[k].key = key
        /\ file.lines[k].val > 0 /\ file.lines[k].val < 3600}
OutOfRangeLines(file, key) ==
    {k \in 1..Len(file.lines) :
        /\ file.lines[k].kind = "kv" /\ file.lines[k].key = key
        /\ (file.lines[k].val <= 0 \/ file.lines[k].val >= 3600)}
LastOf(ks) == CHOOSE k \in ks : \A m \in ks : m <= k
\* The value the file gives `key`: that of its last in-range line, or the
\* default when it has none.
AcceptedValue(file, key, default) ==
    IF InRangeLines(file, key) = {} THEN default
    ELSE file.lines[LastOf(InRangeLines(file, key))].val
AcceptedMin == AcceptedValue(loadObs.file, "min_delay", DEFAULT_MIN_DELAY_S)
AcceptedMax == AcceptedValue(loadObs.file, "max_delay", DEFAULT_MAX_DELAY_S)
LoadReturned == pc = "main_select"

\* C11: when the min_delay the file gives is greater than the max_delay it
\* gives, the effective bounds after LoadConfiguration are the two values
\* swapped, and a warning was logged.
C11_InvertedBoundsSwapped ==
    (LoadReturned /\ loadObs.file.present /\ AcceptedMin > AcceptedMax) =>
        /\ g_min_delay_seconds = AcceptedMax
        /\ g_max_delay_seconds = AcceptedMin
        /\ loadObs.warnings >= 1

\* The file "min_delay=10, max_delay=5" was loaded as (5, 10) with one warning.
C11_Witness ==
    /\ LoadReturned
    /\ loadObs.file = ConfigFile(TRUE, <<ConfigLine("kv", "min_delay", 10),
                                         ConfigLine("kv", "max_delay", 5)>>)
    /\ g_min_delay_seconds = 5 /\ g_max_delay_seconds = 10
    /\ loadObs.warnings = 1

\* C12: a line with an out-of-range value for a key leaves that key at its
\* prior value (the default or the value of an earlier in-range line) and
\* logs a warning, one per such line; in-range values of either key in the
\* same file are still loaded.  The effective bounds are therefore the
\* accepted values of the two keys, in ascending order.
C12_OutOfRangeKeepsPrior ==
    \A key \in {"min_delay", "max_delay"} :
        (LoadReturned /\ OutOfRangeLines(loadObs.file, key) # {}) =>
            /\ loadObs.warnings >= Cardinality(OutOfRangeLines(loadObs.file, key))
            /\ {g_min_delay_seconds, g_max_delay_seconds} = {AcceptedMin, AcceptedMax}
            /\ g_min_delay_seconds <= g_max_delay_seconds

\* "min_delay=5, min_delay=9999, max_delay=10": the out-of-range line left
\* min_delay at the value of the earlier line, and max_delay was loaded.
C12_Witness ==
    /\ LoadReturned
    /\ loadObs.file = ConfigFile(TRUE, <<ConfigLine("kv", "min_delay", 5),
                                         ConfigLine("kv", "min_delay", 9999),
                                         ConfigLine("kv", "max_delay", 10)>>)
    /\ g_min_delay_seconds = 5 /\ g_max_delay_seconds = 10
    /\ loadObs.warnings = 1

\* C13: after LoadConfiguration returns, whatever the file held, the
\* effective bounds satisfy 0 < min <= max < 3600.
C13_BoundsWellFormed ==
    LoadReturned =>
        /\ 0 < g_min_delay_seconds
        /\ g_min_delay_seconds <= g_max_delay_seconds
        /\ g_max_delay_seconds < 3600

\* A file with an out-of-range line, an unknown key and an unparsable line
\* was loaded.
C13_Witness ==
    /\ LoadReturned
    /\ loadObs.file.present
    /\ OutOfRangeLines(loadObs.file, "max_delay") # {}
    /\ \E k \in 1..Len(loadObs.file.lines) : loadObs.file.lines[k].key = "other"
    /\ \E k \in 1..Len(loadObs.file.lines) : loadObs.file.lines[k].kind = "malformed"

(***************************************************************************)
(* Properties of main's setup.                                             *)
(***************************************************************************)
\* C14: setup failures are fatal.  A failed InitializeLogging leads to the
\* failure exit with no configuration loaded and no window selected; a
\* selection that returns no window leads to the failure exit; the failure
\* exit is final, and no join, focus change or SendInput was issued and no
\* delivery was started by then.
C14_SetupFailuresFatal ==
    [][/\ (pc = "main_init_logging" /\ pc' # pc) =>
            \/ pc' = "main_load_config"
            \/ /\ pc' = "exit_failure"
               /\ UNCHANGED <<cfgVars, g_hTargetWindow>>
               /\ loadObs = NoLoad /\ g_hTargetWindow = NULL
       /\ (pc = "main_select" /\ pc' # pc /\ g_hTargetWindow' = NULL) =>
            pc' = "exit_failure"
       /\ (pc # "exit_failure" /\ pc' = "exit_failure") =>
            /\ pc \in {"main_init_logging", "main_select"}
            /\ g_hTargetWindow' = NULL
            /\ calls' = <<>> /\ joined' = {} /\ keystroke_count' = 0
       /\ pc = "exit_failure" => UNCHANGED vars
      ]_vars

\* A configuration file was loaded, the selection returned no window, and
\* the program is at its failure exit.
C14_Witness ==
    /\ pc = "exit_failure"
    /\ loadObs.file.present
    /\ g_hTargetWindow = NULL

(***************************************************************************)
(* Properties of the acquisition phase.                                    *)
(***************************************************************************)
SfwOn(log, h) == {k \in CallsOf(log, "SetForegroundWindow") : log[k].hwnd = h}
\* This step issues SetForegroundWindow for the target.
SfwOnTargetIssued ==
    Cardinality(SfwOn(calls', Target)) > Cardinality(SfwOn(calls, Target))

\* C15: a session that enters activation issues at most 3
\* SetForegroundWindow requests for the target; each request is followed,
\* after the pause, by a check of the foreground owner whose answer is what
\* the owner then is; and a request is issued only while every earlier
\* request was followed by a check that did not see the target: once a
\* check has seen the target, no further request is made.
C15_BoundedActivationAttempts ==
    /\ [][SfwOnTargetIssued =>
            (/\ Cardinality(SfwOn(calls', Target)) <= 3
             /\ Cardinality(SfwOn(calls, Target)) = attempt_i
             /\ ~focusSet
             /\ pc' = "a_sfw_wait")]_vars
    /\ [][(pc = "a_sfw_wait" /\ pc' # pc) => pc' = "a_check"]_vars
    /\ [][(pc = "a_check" /\ pc' # pc) =>
            (focusSet' = (fg = Target) /\ attempt_i' = attempt_i)]_vars
    /\ [](focusSet => pc \in {"a_settle_wait", "a_settle_check", "a_lost_log",
                               "a_detach_o", "a_detach_t"})

\* The third request was the one that took: the check after it saw the
\* target.
C15_Witness ==
    /\ pc = "a_settle_wait"
    /\ focusSet
    /\ Cardinality(SfwOn(calls, Target)) = 3

\* C16: at the end of the acquisition phase, whatever its outcome, the
\* joins were released in the reverse of the order they were made: of two
\* successful joins, the later one has its release before the release of
\* the earlier one.
C16_UnjoinReverseOrder ==
    pc = "s_final" =>
        \A k1, k2 \in SuccessfulJoins(calls) :
            k1 < k2 =>
                \E m2 \in UnjoinsAfter(calls, k2) :
                    \E m1 \in UnjoinsAfter(calls, k1) : m2 < m1

\* Both joins were made, focus was lost after the settle delay, and the
\* acquisition phase has ended.
C16_Witness ==
    /\ pc = "s_final"
    /\ acqOutcome = "FAILED"
    /\ Cardinality(SuccessfulJoins(calls)) = 2
    /\ Cardinality(SfwOn(calls, Target)) = 1

(***************************************************************************)
(* Properties of the restore step.                                         *)
(***************************************************************************)
ShowOn(log, h) == {k \in CallsOf(log, "ShowWindow") : log[k].hwnd = h}

RestoreBodyEnds == pc \in RestorePcs /\ pc' = "s_ret"
OneRequestUnlessOriginal ==
    Cardinality(SfwOn(calls', hOriginalForeground)) =
        IF currentFgAfterInput' = hOriginalForeground THEN 0 ELSE 1

\* C18 as stated: in a session that did not start with the target in the
\* foreground and whose acquisition outcome was SECURED, the restore step
\* issues exactly one SetForegroundWindow for the original owner when the
\* foreground owner at restore time is the target or any window other than
\* the original owner, and none when it is already the original owner.
\* So, there being an original owner, the restore step may end without a
\* request only when the foreground owner is the original owner.
C18_RestoreWheneverSecured ==
    /\ [][(/\ pc = "s_restore" /\ pc' = "s_ret"
            /\ acqOutcome = "SECURED" /\ ~targetWasAlreadyForeground
            /\ hOriginalForeground # NULL) =>
                fg = hOriginalForeground]_vars
    /\ [][RestoreBodyEnds => OneRequestUnlessOriginal]_vars

\* C18, amended: the restore is attempted exactly when the session did not
\* start with the target in the foreground, focus was still held for the
\* injection (focusSetForInput), and the original owner is a window that
\* still exists when RestoreOriginalFocus is entered; when it is attempted,
\* exactly one SetForegroundWindow for the original owner is issued if the
\* foreground owner read at restore time is not the original owner, and
\* none if it is.
C18_RestoreWhenInputFocusHeld ==
    /\ [][(pc = "s_restore" /\ pc' # pc) =>
            (pc' = "r_getfg" <=>
                (/\ ~targetWasAlreadyForeground
                 /\ focusSetForInput
                 /\ hOriginalForeground \notin {NULL, Target}
                 /\ IsWindow(hOriginalForeground)))]_vars
    /\ [][RestoreBodyEnds => OneRequestUnlessOriginal]_vars

\* The user switched to a third window during the cycle; the restore issued
\* its one request for the original owner and the session has ended.
C18_Witness ==
    /\ pc = "s_ret"
    /\ acqOutcome = "SECURED"
    /\ hOriginalForeground \notin {NULL, Target}
    /\ currentFgAfterInput \notin {NULL, Target, hOriginalForeground}
    /\ Cardinality(SfwOn(calls, hOriginalForeground)) = 1

(***************************************************************************)
(* Properties of the joins.                                                *)
(***************************************************************************)
FailedJoins(log) ==
    {k \in CallsOf(log, "AttachThreadInput") : log[k].fAttach /\ ~log[k].ok}

\* C19: a failed join does not abort the session.  When a join of the
\* acquisition phase has failed, the phase still ends with at least one
\* SetForegroundWindow request for the target made and with an outcome;
\* and the outcome is decided by the foreground checks alone: SECURED is
\* reported only by the settle check seeing the target after an attempt's
\* check saw it, FAILED only by the settle check seeing another owner or
\* by the check after the 3rd request seeing another owner.
C19_FailedJoinContinues ==
    /\ []((pc = "s_final" /\ FailedJoins(calls) # {}) =>
            /\ SfwOn(calls, Target) # {}
            /\ acqOutcome \in {"SECURED", "FAILED"})
    /\ [][(pc \in ActivatePcs /\ acqOutcome # "SECURED" /\ acqOutcome' = "SECURED") =>
            (pc = "a_settle_check" /\ focusSet /\ fg = Target)]_vars
    /\ [][(acqOutcome # "FAILED" /\ acqOutcome' = "FAILED") =>
            \/ pc = "a_settle_check" /\ focusSet /\ fg # Target
            \/ /\ pc = "a_fail_log" /\ ~focusSet
               /\ Cardinality(SfwOn(calls, Target)) = 3]_vars

\* Both joins failed, and the acquisition still secured the foreground.
C19_Witness ==
    /\ pc = "s_final"
    /\ Cardinality(FailedJoins(calls)) = 2
    /\ acqOutcome = "SECURED"

(***************************************************************************)
(* Properties of the use of window handles.                                *)
(***************************************************************************)
\* The window handles this step hands to the OS: the window of a
\* SetForegroundWindow or ShowWindow call, the windows whose thread is
\* looked up for AttachThreadInput (lines 481-482 and 567), and the target
\* when SendInput is issued.
HandlesUsed ==
    (IF /\ Len(calls') = Len(calls) + 1
        /\ calls'[Len(calls')].op \in {"SetForegroundWindow", "ShowWindow"}
       THEN {calls'[Len(calls')].hwnd} ELSE {})
    \cup (IF SendInputIssued THEN {g_hTargetWindow} ELSE {})
    \cup (IF pc = "a_entry" /\ pc' = "a_attach_t"
            THEN {g_hTargetWindow, hOriginalForeground} \ {NULL} ELSE {})
    \cup (IF pc = "r_tid" /\ pc' = "r_attach" THEN {hOriginalForeground} ELSE {})

\* C20: every operation that consumes a window handle comes after a
\* liveness check of that handle with no sleep in between: the program
\* never hands the OS a handle that it has not seen alive since it last
\* slept.
C20_LivenessCheckedBeforeUse == [][HandlesUsed \subseteq liveChecked]_vars

(***************************************************************************)
(* Properties of the dispatcher once the target is gone.                   *)
(***************************************************************************)
\* The handle main holds no longer identifies a window.
TargetGone == g_hTargetWindow # NULL /\ ~IsWindow(g_hTargetWindow)
DispatcherPcs ==
    {"loop_top", "sample", "wait", "alt_check", "alt_penalty", "recheck", "post_delay"}

\* C21: once the target is closed (its handle stays invalid), the loop
\* eventually terminates, every sleep returning.  A cycle that begins with
\* the target gone goes from its first liveness check straight to the end
\* of the loop; the end is final; and a SendInput is issued after the
\* closure only in the session during which the window was closed, never
\* when it was closed before the session of the cycle began.
C21_TargetGoneTerminates ==
    /\ (TargetGone ~> (pc = "done"))
    /\ [][(pc = "loop_top" /\ TargetGone /\ pc' # pc) => pc' = "done"]_vars
    /\ [][pc = "done" => UNCHANGED <<pc, calls, keystroke_count>>]_vars
    /\ [][SendInputIssued => closedAtPc \in SessionPcs \cup {""}]_vars

\* The target was closed in the pause that follows a session, and the loop
\* has ended at the first check of the next cycle.
C21_Witness ==
    /\ pc = "done"
    /\ closedAtPc = "post_delay"
    /\ keystroke_count = 1

(***************************************************************************)
(* Properties of the injection.                                            *)
(***************************************************************************)
AfterInjectionPcs == {"s_restore", "s_ret", "post_delay"} \cup RestorePcs

\* C22: a cycle issues at most one SendInput call, and the call carries
\* the whole combo in order: Ctrl down, F5 down, F5 up, Ctrl up.  SendInput
\* is issued only at the injection step, with no SendInput issued before
\* it in the cycle, whether or not the OS accepts all 4 events; from there
\* the session only runs on to its end, and the next SendInput can only
\* belong to the next cycle.
C22_OneSendInputPerCycle ==
    /\ [](/\ Cardinality(CallsOf(calls, "SendInput")) <= 1
          /\ \A k \in CallsOf(calls, "SendInput") :
                calls[k].inputs = <<[wVk |-> "VK_CONTROL", keyUp |-> FALSE],
                                    [wVk |-> "VK_F5", keyUp |-> FALSE],
                                    [wVk |-> "VK_F5", keyUp |-> TRUE],
                                    [wVk |-> "VK_CONTROL", keyUp |-> TRUE]>>)
    /\ [][SendInputIssued =>
            (pc = "s_send" /\ pc' = "s_restore" /\ NoSendInput(calls))]_vars
    /\ [][(pc \in AfterInjectionPcs) =>
            (pc' \in AfterInjectionPcs \cup {"loop_top"})]_vars

\* The OS accepted fewer than 4 events; the session went on to the restore
\* step without a second call.
C22_Witness ==
    /\ pc = "s_restore"
    /\ Cardinality(CallsOf(calls, "SendInput")) = 1
    /\ \E k \in CallsOf(calls, "SendInput") : ~calls[k].ok
    /\ ~targetWasAlreadyForeground

(***************************************************************************)
(* Properties of the tracking of joins.                                    *)
(***************************************************************************)
Unjoins(log) == {m \in CallsOf(log, "AttachThreadInput") : ~log[m].fAttach}

\* C23: an unjoin (AttachThreadInput with FALSE) is issued for a thread
\* only if the join of that thread succeeded earlier in the same session,
\* in the acquisition phase and in the restore phase alike: every unjoin
\* among the calls of a phase comes after a successful join of the same
\* thread.
C23_UnjoinOnlyAfterSuccessfulJoin ==
    \A m \in Unjoins(calls) :
        \E k \in SuccessfulJoins(calls) : k < m /\ calls[k].tid = calls[m].tid

(***************************************************************************)
(* Properties of the cycle skipped for a held Alt key.                     *)
(***************************************************************************)
\* C24: when an Alt key (left or right; the generic key is either) is held
\* at the check that follows the randomized wait, the dispatcher goes to
\* the penalty with no call issued and the counter untouched; the penalty
\* is a pause of 500 ms that issues no call, changes neither the counter,
\* the foreground nor the joins, and leads to the liveness check at the top
\* of the loop; no call has been issued in the cycle when it gets there.
C24_AltHeldSkipsCycle ==
    /\ [][(pc = "alt_check" /\ pc' # pc /\ AnyAltDown(keysDown)) =>
            (pc' = "alt_penalty" /\ UNCHANGED <<calls, keystroke_count, fg, joined>>)]_vars
    /\ [][(pc = "alt_penalty" /\ pc' # pc) =>
            (/\ pc' = "loop_top"
             /\ lastWaitMs' = 500
             /\ UNCHANGED <<calls, keystroke_count, fg, joined>>)]_vars
    /\ [](pc = "alt_penalty" => (calls = <<>> /\ AnyAltDown(modAtCheck)))
    /\ []((pc = "loop_top" /\ lastWaitMs = 500) => calls = <<>>)

\* After one delivered cycle, a cycle was skipped with only the left Alt
\* key held, and the dispatcher is back at the liveness check.
C24_Witness ==
    /\ pc = "loop_top"
    /\ lastWaitMs = 500
    /\ modAtCheck = {"LALT"}
    /\ keystroke_count = 1

(***************************************************************************)
(* Termination of a session.                                               *)
(***************************************************************************)
\* The steps of a session in the reverse of the order the code runs them:
\* what follows the attempts, one attempt, what precedes the attempts.
AfterAttempts ==
    <<"post_delay", "s_ret", "r_fail_log", "r_verify", "r_detach", "r_sfw",
      "r_iconic", "r_attach", "r_tid", "r_wait", "r_getfg", "s_restore", "s_send",
      "s_final_check", "s_final_wait", "s_final", "a_detach_t", "a_detach_o",
      "a_lost_log", "a_settle_check", "a_settle_wait">>
OneAttempt == <<"a_fail_log", "a_check", "a_sfw_wait", "a_sfw">>
BeforeAttempts ==
    <<"a_iconic_wait", "a_iconic", "a_attach_o", "a_attach_t", "a_entry", "s_getfg",
      "s_iswindow">>
PosIn(seq, x) == CHOOSE k \in 1..Len(seq) : seq[k] = x
IsIn(seq, x) == \E k \in 1..Len(seq) : seq[k] = x

\* An upper bound on the number of steps the session still has to take
\* before SendCtrlF5Keystroke has returned, with 3 attempts allowed: the
\* steps from the place in the order, counting before the attempts all 3
\* rounds of OneAttempt and, within an attempt, one round for every attempt
\* not yet begun.
StepRank ==
    [p \in SessionPcs \cup {"post_delay"} |->
        IF IsIn(AfterAttempts, p) THEN PosIn(AfterAttempts, p) - 1
        ELSE IF IsIn(OneAttempt, p)
          THEN (Len(AfterAttempts) - 1) + PosIn(OneAttempt, p)
        ELSE (Len(AfterAttempts) - 1) + Len(OneAttempt) * 3 + PosIn(BeforeAttempts, p)]
AttemptPcs == {OneAttempt[k] : k \in 1..Len(OneAttempt)}
StepsLeftAt(p, i) ==
    IF p \in AttemptPcs THEN StepRank[p] + Len(OneAttempt) * (3 - 1 - i)
    ELSE IF p \in DOMAIN StepRank THEN StepRank[p]
    ELSE 0
StepsLeft == StepsLeftAt(pc, attempt_i)

\* C25: every call of SendCtrlF5Keystroke returns to the dispatcher,
\* whatever the environment does (the program's thread keeps being
\* scheduled): each step of a session stays in the session or returns, and
\* strictly decreases a bound on the steps left that allows 3 activation
\* attempts and one pass through the settle check, the injection and the
\* restore; no attempt is under way beyond the third; a phase holds at
\* most 3 focus requests and one SendInput, the restore phase at most one
\* focus request.
C25_SessionTerminates ==
    /\ (pc \in SessionPcs) ~> (pc = "post_delay")
    /\ [][(pc \in SessionPcs /\ pc' # pc) =>
            (/\ pc' \in SessionPcs \cup {"post_delay"}
             /\ StepsLeftAt(pc', attempt_i') < StepsLeft)]_vars
    /\ [](pc \in SessionPcs => (StepsLeft >= 1 /\ StepsLeft <= 39))
    /\ [](pc \in AttemptPcs => attempt_i < 3)
    /\ [](/\ Cardinality(CallsOf(calls, "SetForegroundWindow")) <= 3
          /\ Cardinality(CallsOf(calls, "SendInput")) <= 1
          /\ (pc \in RestorePcs => Cardinality(CallsOf(calls, "SetForegroundWindow")) <= 1))

\* A session in which the target was closed during the acquisition has
\* returned after three focus requests.
C25_Witness ==
    /\ pc = "post_delay"
    /\ closedAtPc \in ActivatePcs
    /\ Cardinality(SfwOn(calls, Target)) = 3

(***************************************************************************)
(* Joins across the transitions of a session.                              *)
(***************************************************************************)
\* From the return of the acquisition up to the restore's own join.
BetweenJoinsPcs ==
    {"s_final", "s_final_wait", "s_final_check", "s_send", "s_restore", "r_getfg",
     "r_wait", "r_tid", "r_attach"}

\* C26: no join of this process is outstanding when SendInput is issued
\* nor when the restore makes its own join: the acquisition returns with
\* every join released, and no thread is joined from then until the
\* restore's join.
C26_NoJoinCarriedOver ==
    /\ [][SendInputIssued => (joined = {} /\ joined' = {})]_vars
    /\ [][(pc = "r_attach" /\ pc' # pc) => joined = {}]_vars
    /\ [][(pc = "a_detach_t" /\ pc' # pc) => (pc' = "s_final" /\ joined' = {})]_vars
    /\ [](pc \in BetweenJoinsPcs => (joined = {} /\ ~attachedToTarget /\ ~attachedToOriginalFG))

\* SendInput has been issued in a session whose acquisition had joined
\* both the target's thread and the original owner's.
C26_Witness ==
    /\ pc = "s_restore"
    /\ ~NoSendInput(calls)
    /\ Cardinality(SuccessfulJoins(calls)) = 2
    /\ joined = {}

====
